---- MODULE Spec2Model ----
(***************************************************************************)
(* Model of the versioned settings store: BaseSettings / SettingsV1 /      *)
(* SettingsV2 (src/settings.py) and Manager (src/manager.py).              *)
(*                                                                         *)
(* A JSON object (a Python dict) is a function whose DOMAIN is its set of  *)
(* keys.  A settings instance is a record [cls, attrs]: cls is the schema  *)
(* class (1 = SettingsV1, 2 = SettingsV2) and attrs the instance's field   *)
(* values.  The config directory is a function from the names of the files *)
(* that exist to their JSON content.                                       *)
(***************************************************************************)
EXTENDS Integers, Sequences, FiniteSets, TLC

VARIABLES
    files,   \* config directory: file name -> JSON object of the file
    obj,     \* a settings instance used directly (load / save / migrate)
    data,    \* a dict handed to migrate directly
    mgr,     \* Manager instances: id -> [settings_type, _settings]
    ret      \* record of the last operation: inputs, outcome, state before

vars == <<files, obj, data, mgr, ret>>

----------------------------------------------------------------------------
(* Bounds *)

MaxVersion == 3      \* largest VERSION value found in a file or dict
MaxVal == 2          \* field values range over 1..MaxVal
MaxFiles == 2        \* files present in the config directory at start

(* Program constants *)

V1_VERSION == 1                 \* SettingsV1.VERSION
V2_VERSION == 2                 \* SettingsV2.VERSION
DefaultNewVariable == 1         \* SettingsV1.new_variable default_value
DefaultNewVariableDosh == 1     \* SettingsV2.new_variable_dosh default_value

None == [cls |-> 0]             \* Python None for Manager._settings

----------------------------------------------------------------------------
(* Dicts *)

Keys == {"VERSION", "new_variable", "new_variable_dosh"}
Versions == (0 - 1) .. MaxVersion
Vals == 1 .. MaxVal

\* d[k] = v, adding the key when absent
Put(d, k, v) == (k :> v) @@ d

\* dict.update: the items of u, and the items of d under the other keys
Update(d, u) == u @@ d

\* F applied to the value of v, v evaluated once
Bind(v, F(_)) == CHOOSE out \in { F(x) : x \in {v} } : TRUE

Has(d, k) == k \in DOMAIN d

\* every dict over Keys with VERSION in Versions and field values in Vals
DataSet ==
    { d \in UNION { [D -> Versions \cup Vals] : D \in SUBSET Keys } :
        /\ Has(d, "VERSION") => d["VERSION"] \in Versions
        /\ Has(d, "new_variable") => d["new_variable"] \in Vals
        /\ Has(d, "new_variable_dosh") => d["new_variable_dosh"] \in Vals }

----------------------------------------------------------------------------
(* Schema classes *)

Classes == {1, 2}

ClassVersion(cls) == IF cls = 1 THEN V1_VERSION ELSE V2_VERSION

\* the pykson fields of a schema class, inherited ones included
FieldsOf(cls) ==
    IF cls = 1 THEN {"VERSION", "new_variable"}
    ELSE {"VERSION", "new_variable", "new_variable_dosh"}

DefaultOf(k) ==
    IF k = "new_variable" THEN DefaultNewVariable
    ELSE IF k = "new_variable_dosh" THEN DefaultNewVariableDosh
    ELSE 0

EmptyDict == << >>

\* settings_type(**kwargs): fields given in kwargs, the others at their
\* default; __init__ then assigns self.VERSION = <class>.VERSION
Construct(cls, kwargs) ==
    [cls |-> cls,
     attrs |-> [k \in FieldsOf(cls) |->
                  IF k = "VERSION" THEN ClassVersion(cls)
                  ELSE IF Has(kwargs, k) THEN kwargs[k]
                  ELSE DefaultOf(k)]]

NewInstance(cls) == Construct(cls, EmptyDict)

\* every instance of a class the program can hold: VERSION as set by
\* __init__, the other fields assigned any value
Instances(cls) ==
    { [cls |-> cls, attrs |-> a] :
        a \in { f \in [FieldsOf(cls) -> Versions \cup Vals] :
                  /\ f["VERSION"] = ClassVersion(cls)
                  /\ \A k \in FieldsOf(cls) \ {"VERSION"} : f[k] \in Vals } }

----------------------------------------------------------------------------
(* migrate: result is [exc, data]; exc = "none" when the call returns *)

Returned(d) == [exc |-> "none", data |-> d]
Raised(e, d) == [exc |-> e, data |-> d]

BaseSettings_migrate(self, d) == Raised("RuntimeError", d)

SettingsV1_migrate(self, d) ==
    IF ~Has(d, "VERSION") THEN Raised("KeyError", d)
    ELSE IF d["VERSION"] = V1_VERSION THEN Returned(d)
    ELSE IF d["VERSION"] < V1_VERSION THEN BaseSettings_migrate(self, d)
    ELSE Returned(Put(Put(d, "VERSION", V1_VERSION),
                      "new_variable", self.attrs["new_variable"]))

SettingsV2_migrate(self, d) ==
    IF ~Has(d, "VERSION") THEN Raised("KeyError", d)
    ELSE Bind(IF d["VERSION"] < V2_VERSION
              THEN SettingsV1_migrate(self, d)
              ELSE Returned(d),
              LAMBDA r :
                IF r.exc # "none" THEN r
                ELSE Returned(Put(Put(r.data, "VERSION", V2_VERSION),
                                  "new_variable_dosh",
                                  self.attrs["new_variable_dosh"])))

\* self.migrate(data): dispatch on the class of self
Migrate(self, d) ==
    IF self.cls = 1 THEN SettingsV1_migrate(self, d)
    ELSE SettingsV2_migrate(self, d)

----------------------------------------------------------------------------
(* Serialisation (pykson) *)

\* Pykson().to_json(self): every field of the instance, VERSION included
ToJson(self) == [k \in FieldsOf(self.cls) |-> self.attrs[k]]

\* Pykson().from_json(result, cls): a key that is no field of cls is
\* rejected; the instance is built by cls(**result)
FromJson(d, cls) ==
    IF ~((DOMAIN d) \subseteq FieldsOf(cls))
    THEN [err |-> "unknown_field", obj |-> None]
    ELSE [err |-> "none", obj |-> Construct(cls, d)]

----------------------------------------------------------------------------
(* BaseSettings.load / BaseSettings.save *)

\* CopyContent with the copy onto the instance left out
CopyContent_NoUpdate(self, m) ==
    IF m.exc # "none"
    THEN [err |-> "migrate_raised", obj |-> self, result |-> m.data]
    ELSE IF m.data["VERSION"] # self.attrs["VERSION"]
    THEN [err |-> "chain_failed", obj |-> self, result |-> m.data]
    ELSE Bind(FromJson(m.data, self.cls),
              LAMBDA new :
                IF new.err # "none"
                THEN [err |-> new.err, obj |-> self, result |-> m.data]
                ELSE [err |-> "none", obj |-> self, result |-> m.data])

\* lines 60-67 of load, on the dict m.data that migrate left: the check of
\* the version reached and the copy onto the instance
CopyContent(self, m) ==
    IF m.exc # "none"
    THEN [err |-> "migrate_raised", obj |-> self, result |-> m.data]
    ELSE IF m.data["VERSION"] # self.attrs["VERSION"]
    THEN [err |-> "chain_failed", obj |-> self, result |-> m.data]
    ELSE Bind(FromJson(m.data, self.cls),
              LAMBDA new :
                IF new.err # "none"
                THEN [err |-> new.err, obj |-> self, result |-> m.data]
                ELSE [err |-> "none",
                      obj |-> [cls |-> self.cls,
                               attrs |-> Update(self.attrs, new.obj.attrs)],
                      result |-> m.data])

\* LoadBody with the checks of the version left out: whatever migrate
\* leaves is copied
LoadBody_Unchecked(self, result) ==
    IF ~Has(result, "VERSION")
    THEN [err |-> "malformed", obj |-> self, result |-> result]
    ELSE Bind(IF result["VERSION"] < self.attrs["VERSION"]
              THEN Migrate(self, result)
              ELSE Returned(result),
              LAMBDA m :
                IF m.exc # "none"
                THEN [err |-> "migrate_raised", obj |-> self,
                      result |-> m.data]
                ELSE Bind(FromJson(m.data, self.cls),
                          LAMBDA new :
                            IF new.err # "none"
                            THEN [err |-> new.err, obj |-> self,
                                  result |-> m.data]
                            ELSE [err |-> "none",
                                  obj |-> [cls |-> self.cls,
                                           attrs |-> Update(self.attrs,
                                                       new.obj.attrs)],
                                  result |-> m.data]))

\* the body of the try block of load, on the parsed file content:
\* [err, obj, result]; err = "none" when the block runs to its end, result
\* is the dict as the block left it
LoadBody(self, result) ==
    IF ~Has(result, "VERSION")
    THEN [err |-> "malformed", obj |-> self, result |-> result]
    ELSE IF result["VERSION"] = 0
    THEN [err |-> "invalid_version", obj |-> self, result |-> result]
    ELSE IF result["VERSION"] > self.attrs["VERSION"]
    THEN [err |-> "from_the_future", obj |-> self, result |-> result]
    ELSE Bind(IF result["VERSION"] < self.attrs["VERSION"]
              THEN Migrate(self, result)
              ELSE Returned(result),
              LAMBDA m : CopyContent(self, m))

\* load that leaves a fresh instance behind when the try block fails
BaseSettings_load_ResetOnError(self, fs, file_path) ==
    IF file_path \notin DOMAIN fs
    THEN [exc |-> "RuntimeError", log |-> "none", obj |-> self,
          result |-> EmptyDict]
    ELSE Bind(LoadBody(self, fs[file_path]),
              LAMBDA b : [exc |-> "none", log |-> b.err,
                          obj |-> IF b.err = "none" THEN b.obj
                                  ELSE NewInstance(self.cls),
                          result |-> b.result])

\* self.load(file_path): [exc, log, obj, result].  exc is what reaches the
\* caller, log the exception the except clause printed ("none" if none)
BaseSettings_load(self, fs, file_path) ==
    IF file_path \notin DOMAIN fs
    THEN [exc |-> "RuntimeError", log |-> "none", obj |-> self,
          result |-> EmptyDict]
    ELSE Bind(LoadBody(self, fs[file_path]),
              LAMBDA b : [exc |-> "none", log |-> b.err, obj |-> b.obj,
                          result |-> b.result])

\* save that leaves a file that exists as it is
BaseSettings_save_KeepExisting(self, fs, file_path) ==
    IF file_path \in DOMAIN fs THEN fs ELSE Put(fs, file_path, ToJson(self))

\* self.save(file_path): the directory after the write
BaseSettings_save(self, fs, file_path) == Put(fs, file_path, ToJson(self))

----------------------------------------------------------------------------
(* Direct use of a settings instance *)

NoManagers == << >>

\* self.<k> = v on the instance, for a declared field other than VERSION
ObjSetAttr ==
    /\ \E k \in FieldsOf(obj.cls) \ {"VERSION"}, v \in Vals :
         /\ obj.attrs[k] # v
         /\ obj' = [obj EXCEPT !.attrs[k] = v]
    /\ ret' = [ret EXCEPT !.op = "setattr"]
    /\ UNCHANGED <<files, data, mgr>>

\* self.migrate(data) called on a dict
DoMigrate ==
    /\ LET r == Migrate(obj, data)
       IN /\ data' = r.data
          /\ ret' = [op |-> "migrate", self |-> obj, before |-> data,
                     exc |-> r.exc]
    /\ UNCHANGED <<files, obj, mgr>>

InitMigrate ==
    /\ files = EmptyDict
    /\ mgr = NoManagers
    /\ \E cls \in Classes : obj = NewInstance(cls)
    /\ data \in DataSet
    /\ ret = [op |-> "init"]

NextMigrate == ObjSetAttr \/ DoMigrate

SpecMigrate == InitMigrate /\ [][NextMigrate]_vars

----------------------------------------------------------------------------
(* Direct load / save of one settings file *)

DirectPath == "settings-2.json"

\* a fresh instance: settings_type()
ObjNew ==
    /\ \E cls \in Classes : obj' = NewInstance(cls)
    /\ ret' = [ret EXCEPT !.op = "new"]
    /\ UNCHANGED <<files, data, mgr>>

\* obj.load(DirectPath)
ObjLoad ==
    /\ LET r == BaseSettings_load(obj, files, DirectPath)
       IN /\ obj' = r.obj
          /\ ret' = [op |-> "load", self |-> obj, before |-> files,
                     exc |-> r.exc, log |-> r.log, result |-> r.result,
                     saved |-> ret.saved]
    /\ UNCHANGED <<files, data, mgr>>

\* obj.save(DirectPath); ret.saved remembers the instance the file holds
ObjSave ==
    /\ files' = BaseSettings_save(obj, files, DirectPath)
    /\ ret' = [op |-> "save", self |-> obj, before |-> files,
               exc |-> "none", log |-> "none", result |-> EmptyDict,
               saved |-> obj]
    /\ UNCHANGED <<obj, data, mgr>>

InitSettings ==
    /\ \/ files = EmptyDict
       \/ \E d \in DataSet : files = Put(EmptyDict, DirectPath, d)
    /\ mgr = NoManagers
    /\ \E cls \in Classes : obj = NewInstance(cls)
    /\ data = EmptyDict
    /\ ret = [op |-> "init", self |-> obj, before |-> files,
              exc |-> "none", log |-> "none", result |-> EmptyDict,
              saved |-> None]

NextSettings == ObjNew \/ ObjSetAttr \/ ObjLoad \/ ObjSave

SpecSettings == InitSettings /\ [][NextSettings]_vars

----------------------------------------------------------------------------
(* The config directory *)

\* names "settings-<N>.json", by N
NumberedNames == <<"settings-1.json", "settings-2.json", "settings-3.json">>

\* a name that starts with the prefix and has no digit after it
MalformedName == "settings-old.json"

\* a name that does not start with the prefix
OtherName == "notes.json"

\* a second name that carries the version of settings-2.json: the key of the
\* sort is the first run of digits after the prefix, wherever the name ends
TieName == "settings-2.json.bak"

Names == {NumberedNames[i] : i \in DOMAIN NumberedNames}
            \cup {MalformedName, OtherName}

\* possible_file.startswith(Manager.SETTINGS_NAME_PREFIX)
StartsWithPrefix(n) == n # OtherName

NoMatch == 0 - 1

\* int(re.search("settings-(\d+)", x).group(1)): the digits that follow
\* the prefix, whatever comes after them; NoMatch when re.search returns
\* None
NameVersion(n) ==
    IF \E i \in DOMAIN NumberedNames : NumberedNames[i] = n
    THEN CHOOSE i \in DOMAIN NumberedNames : NumberedNames[i] = n
    ELSE IF n = TieName THEN V2_VERSION
    ELSE NoMatch

\* snapshots found in the directory at start: one per VERSION value (none,
\* 0 .. MaxVersion), written by the schema of that version, fields off
\* their defaults
Snapshots ==
    { d \in DataSet :
        /\ Has(d, "new_variable") /\ d["new_variable"] = MaxVal
        /\ Has(d, "VERSION") => d["VERSION"] >= 0
        /\ Has(d, "new_variable_dosh")
             <=> (Has(d, "VERSION") /\ d["VERSION"] >= V2_VERSION)
        /\ Has(d, "new_variable_dosh") => d["new_variable_dosh"] = MaxVal }

\* the directories the program can start on: at most MaxFiles files; the
\* content of a file that is never opened is left empty.  No two names
\* carry the same version here (RestartDirectories has such names)
Directories ==
    { fs \in UNION { [S -> Snapshots \cup {EmptyDict}] :
                       S \in { T \in SUBSET Names : Cardinality(T) <= MaxFiles } } :
        \A n \in DOMAIN fs :
            (fs[n] = EmptyDict) <=> (n \in {MalformedName, OtherName}) }

----------------------------------------------------------------------------
(* Manager *)

Managers == {1}

\* self.settings_file_path()
settings_file_path(settings_type) == NumberedNames[ClassVersion(settings_type)]

\* load_from_file that does not write the file it does not find
load_from_file_NoSave(settings_type, fs, file_path) ==
    LET settings_data == NewInstance(settings_type)
    IN IF file_path \in DOMAIN fs
       THEN Bind(BaseSettings_load(settings_data, fs, file_path),
                 LAMBDA r : [exc |-> r.exc, obj |-> r.obj, files |-> fs,
                             log |-> r.log])
       ELSE [exc |-> "none", obj |-> settings_data, files |-> fs,
             log |-> "none"]

\* Manager.load_from_file(settings_type, file_path):
\* [exc, obj, files, log]
load_from_file(settings_type, fs, file_path) ==
    LET settings_data == NewInstance(settings_type)
    IN IF file_path \in DOMAIN fs
       THEN Bind(BaseSettings_load(settings_data, fs, file_path),
                 LAMBDA r : [exc |-> r.exc, obj |-> r.obj, files |-> fs,
                             log |-> r.log])
       ELSE [exc |-> "none", obj |-> settings_data,
             files |-> BaseSettings_save(settings_data, fs, file_path),
             log |-> "none"]

\* the candidates of load: the listed names that start with the prefix
valid_files(fs) == { n \in DOMAIN fs : StartsWithPrefix(n) }

\* the order of the candidates with the reverse() left out
SortedAscending(S) ==
    { order \in [1 .. Cardinality(S) -> S] :
        /\ \A n \in S : \E i \in DOMAIN order : order[i] = n
        /\ \A i, j \in DOMAIN order :
             i < j => NameVersion(order[i]) <= NameVersion(order[j]) }

\* the orders sort-by-version-then-reverse can leave the candidates in
\* (names of equal version in either order, as os.listdir gave them)
SortedReversed(S) ==
    { order \in [1 .. Cardinality(S) -> S] :
        /\ \A n \in S : \E i \in DOMAIN order : order[i] = n
        /\ \A i, j \in DOMAIN order :
             i < j => NameVersion(order[i]) >= NameVersion(order[j]) }

\* the least element of a set of indices
First(S) == CHOOSE j \in S : \A k \in S : j <= k

\* the end of the loop with the adopted instance written to the canonical
\* file
Adopt_SaveCanonical(r, was, attempted, fallback) ==
    [exc |-> r.exc,
     settings |-> IF r.exc = "none" THEN r.obj ELSE was,
     files |-> IF r.exc = "none"
               THEN Put(r.files, NumberedNames[ClassVersion(r.obj.cls)],
                        ToJson(r.obj))
               ELSE r.files,
     attempted |-> attempted,
     fallback |-> fallback, log |-> r.log]

\* the end of the for loop of load, r being what the last load_from_file
\* gave: [exc, settings, files, attempted, fallback, log].  settings is the
\* value of self._settings after the loop (was: the value it had, kept when
\* an exception leaves the loop)
Adopt(r, was, attempted, fallback) ==
    [exc |-> r.exc,
     settings |-> IF r.exc = "none" THEN r.obj ELSE was,
     files |-> r.files, attempted |-> attempted,
     fallback |-> fallback, log |-> r.log]

\* the for loop of load and its else clause.  Every candidate is a file
\* that exists, so an iteration writes nothing and the loop ends at the
\* first candidate whose load_from_file does not raise
\* SettingsFromTheFuture: adopted when it returns, propagated when it
\* raises anything else; the else clause runs when there is none
TryCandidates(settings_type, was, fs, order) ==
    Bind({ i \in DOMAIN order :
             load_from_file(settings_type, fs, order[i]).exc
               # "SettingsFromTheFuture" },
         LAMBDA stops :
           IF stops = {}
           THEN Bind(load_from_file(settings_type, fs,
                                    settings_file_path(settings_type)),
                     LAMBDA r : Adopt(r, was, order, TRUE))
           ELSE Bind(load_from_file(settings_type, fs, order[First(stops)]),
                     LAMBDA r : Adopt(r, was,
                                      SubSeq(order, 1, First(stops)), FALSE)))

\* load() that passes over the names the sort key does not match
Manager_load_SkipMalformed(self, fs, order) ==
    TryCandidates(self.settings_type, self.settings, fs,
        CHOOSE o \in SortedReversed({ n \in valid_files(fs) :
                                        NameVersion(n) # NoMatch }) : TRUE)

\* self.load(), the candidates listed in the order `order` after the sort
Manager_load(self, fs, order) ==
    IF \E n \in valid_files(fs) : NameVersion(n) = NoMatch
    THEN [exc |-> "AttributeError", settings |-> self.settings, files |-> fs,
          attempted |-> <<>>, fallback |-> FALSE, log |-> "none"]
    ELSE TryCandidates(self.settings_type, self.settings, fs, order)

\* load() run on every access, cached instance or not
LoadIfNone_Always(self, fs, order) ==
    [loaded |-> TRUE, r |-> Manager_load(self, fs, order)]

\* "if not self._settings: self.load()", shared by getter and setter:
\* the result of load, or the state as it is with loaded = FALSE
LoadIfNone(self, fs, order) ==
    IF self.settings = None
    THEN [loaded |-> TRUE, r |-> Manager_load(self, fs, order)]
    ELSE [loaded |-> FALSE,
          r |-> [exc |-> "none", settings |-> self.settings, files |-> fs,
                 attempted |-> <<>>, fallback |-> FALSE, log |-> "none"]]

\* the orders load can try the candidates of fs in (one, when no two names
\* carry the same version; irrelevant when the sort key raises)
Orders(fs) ==
    IF \E n \in valid_files(fs) : NameVersion(n) = NoMatch
    THEN {<<>>}
    ELSE SortedReversed(valid_files(fs))

Result(op, m, l, value) ==
    [op |-> op, m |-> m, exc |-> l.r.exc, loaded |-> l.loaded,
     attempted |-> l.r.attempted, fallback |-> l.r.fallback,
     log |-> l.r.log, before |-> files, was |-> mgr[m].settings,
     value |-> value]

\* manager.settings (getter)
Get(m) ==
    /\ \E order \in Orders(files) :
         \E l \in {LoadIfNone(mgr[m], files, order)} :
            /\ mgr' = [mgr EXCEPT ![m].settings = l.r.settings]
            /\ files' = l.r.files
            /\ ret' = Result("get", m, l, None)
    /\ UNCHANGED <<obj, data>>

\* a setter that compares the canonical file with the cached instance and
\* raises when another writer has changed the file
Set_Checked(m) ==
    /\ \E value \in Instances(mgr[m].settings_type), order \in Orders(files) :
         \E l \in {LoadIfNone(mgr[m], files, order)} :
            \E path \in {settings_file_path(mgr[m].settings_type)} :
               IF /\ ~l.loaded
                  /\ path \in DOMAIN files
                  /\ files[path] # ToJson(mgr[m].settings)
               THEN /\ UNCHANGED <<mgr, files>>
                    /\ ret' = Result("set", m,
                                     [l EXCEPT !.r.exc = "Conflict"], value)
               ELSE /\ IF l.r.exc # "none"
                       THEN /\ mgr' = [mgr EXCEPT ![m].settings = l.r.settings]
                            /\ files' = l.r.files
                       ELSE /\ mgr' = [mgr EXCEPT ![m].settings = value]
                            /\ files' = BaseSettings_save(value, l.r.files, path)
                    /\ ret' = Result("set", m, l, value)
    /\ UNCHANGED <<obj, data>>

\* manager.settings = value (setter); save() reads self.settings, which is
\* value by then, and writes it to settings_file_path()
Set(m) ==
    /\ \E value \in Instances(mgr[m].settings_type), order \in Orders(files) :
         \E l \in {LoadIfNone(mgr[m], files, order)} :
            /\ IF l.r.exc # "none"
               THEN /\ mgr' = [mgr EXCEPT ![m].settings = l.r.settings]
                    /\ files' = l.r.files
               ELSE /\ mgr' = [mgr EXCEPT ![m].settings = value]
                    /\ files' = BaseSettings_save(value, l.r.files,
                                    settings_file_path(mgr[m].settings_type))
            /\ ret' = Result("set", m, l, value)
    /\ UNCHANGED <<obj, data>>

\* manager.save()
Save(m) ==
    /\ \E order \in Orders(files) :
         \E l \in {LoadIfNone(mgr[m], files, order)} :
            /\ mgr' = [mgr EXCEPT ![m].settings = l.r.settings]
            /\ IF l.r.exc # "none"
               THEN files' = l.r.files
               ELSE files' = BaseSettings_save(l.r.settings, l.r.files,
                                    settings_file_path(mgr[m].settings_type))
            /\ ret' = Result("save", m, l, None)
    /\ UNCHANGED <<obj, data>>

\* manager.load()
Load(m) ==
    /\ \E order \in Orders(files) :
         \E l \in {[loaded |-> TRUE,
                   r |-> Manager_load(mgr[m], files, order)]} :
            /\ mgr' = [mgr EXCEPT ![m].settings = l.r.settings]
            /\ files' = l.r.files
            /\ ret' = Result("load", m, l, None)
    /\ UNCHANGED <<obj, data>>

\* manager.settings.<k> = v: the getter, then an attribute assignment on
\* the instance it returned
SetField(m) ==
    /\ \E k \in FieldsOf(mgr[m].settings_type) \ {"VERSION"}, v \in Vals,
          order \in Orders(files) :
         \E l \in {LoadIfNone(mgr[m], files, order)} :
            /\ IF l.r.exc # "none"
               THEN mgr' = [mgr EXCEPT ![m].settings = l.r.settings]
               ELSE mgr' = [mgr EXCEPT ![m].settings =
                               [l.r.settings EXCEPT !.attrs[k] = v]]
            /\ files' = l.r.files
            /\ ret' = Result("setfield", m, l, None)
    /\ UNCHANGED <<obj, data>>

\* Manager(project_name, settings_type, config_path) on the same directory
\* in place of manager m (a restart of the program).  ret.value stays: the
\* instance the last operation of the replaced Manager assigned, if it was
\* a set
NewManager(m) ==
    /\ mgr[m].settings # None
    /\ mgr' = [mgr EXCEPT ![m].settings = None]
    /\ ret' = [op |-> "init", m |-> m, exc |-> "none", loaded |-> FALSE,
               attempted |-> <<>>, fallback |-> FALSE, log |-> "none",
               before |-> files, was |-> None, value |-> ret.value]
    /\ UNCHANGED <<files, obj, data>>

Init ==
    /\ files \in Directories
    /\ \E t \in Classes :
         mgr = [m \in Managers |-> [settings_type |-> t, settings |-> None]]
    /\ obj = None
    /\ data = EmptyDict
    /\ ret = [op |-> "init", m |-> 1, exc |-> "none", loaded |-> FALSE,
              attempted |-> <<>>, fallback |-> FALSE, log |-> "none",
              before |-> files, was |-> None, value |-> None]

Next ==
    \E m \in Managers :
        \/ Get(m)
        \/ Set(m)
        \/ Save(m)
        \/ Load(m)
        \/ SetField(m)
        \/ NewManager(m)

Spec == Init /\ [][Next]_vars

----------------------------------------------------------------------------
(* A Manager, then a new Manager on the directory the first one left *)

\* directories of snapshot files, of at most MaxFiles files, that can hold
\* TieName next to the names settings-<N>.json
RestartDirectories ==
    UNION { [S -> Snapshots] :
              S \in { T \in SUBSET ({NumberedNames[i] : i \in DOMAIN NumberedNames}
                                      \cup {TieName}) :
                        Cardinality(T) <= MaxFiles } }

InitRestart ==
    /\ files \in RestartDirectories
    /\ \E t \in Classes :
         mgr = [m \in Managers |-> [settings_type |-> t, settings |-> None]]
    /\ obj = None
    /\ data = EmptyDict
    /\ ret = [op |-> "init", m |-> 1, exc |-> "none", loaded |-> FALSE,
              attempted |-> <<>>, fallback |-> FALSE, log |-> "none",
              before |-> files, was |-> None, value |-> None]

NextRestart ==
    \E m \in Managers :
        \/ Get(m)
        \/ Set(m)
        \/ NewManager(m)

SpecRestart == InitRestart /\ [][NextRestart]_vars

----------------------------------------------------------------------------
(* Two Managers of the same schema on the same config directory *)

SharedManagers == {1, 2}

SharedMaxFiles == 1     \* files in the shared directory at start

\* the schema both Managers are constructed with: SettingsV1
SharedClass == CHOOSE c \in Classes : ClassVersion(c) = V1_VERSION

InitShared ==
    /\ files \in { fs \in Directories :
                    Cardinality(DOMAIN fs) <= SharedMaxFiles }
    /\ mgr = [m \in SharedManagers |->
                [settings_type |-> SharedClass, settings |-> None]]
    /\ obj = None
    /\ data = EmptyDict
    /\ ret = [op |-> "init", m |-> 1, exc |-> "none", loaded |-> FALSE,
              attempted |-> <<>>, fallback |-> FALSE, log |-> "none",
              before |-> files, was |-> None, value |-> None]

\* the calls of the two Managers, interleaved in any order; nothing orders
\* them, and each call runs to its end before the next.  A cached instance
\* changes by assignment of manager.settings only
NextShared ==
    \E m \in SharedManagers :
        \/ Get(m)
        \/ Set(m)
        \/ Save(m)

SpecShared == InitShared /\ [][NextShared]_vars

----------------------------------------------------------------------------
(* Claims on migrate (SpecMigrate) *)

\* self.migrate(data) has just been called
Migrated == ret.op = "migrate"

\* C2: SettingsV2.migrate on a version-1 snapshot {VERSION: 1,
\* new_variable: x} returns and leaves exactly {VERSION: 2, new_variable: x,
\* new_variable_dosh: <the version-2 default>}.
C2_ChainCorrectness ==
    ( /\ Migrated
      /\ ret.self.cls = 2
      /\ DOMAIN ret.before = {"VERSION", "new_variable"}
      /\ ret.before["VERSION"] = 1 )
    => /\ ret.exc = "none"
       /\ data = [VERSION |-> V2_VERSION,
                  new_variable |-> ret.before["new_variable"],
                  new_variable_dosh |-> DefaultNewVariableDosh]

\* C3: migrate on data whose VERSION already equals the version of the
\* schema is a no-op: the dict is the same after the call as before it.
C3_MigrateIdempotent ==
    ( /\ Migrated
      /\ Has(ret.before, "VERSION")
      /\ ret.before["VERSION"] = ClassVersion(ret.self.cls) )
    => /\ ret.exc = "none"
       /\ data = ret.before

\* migrate raises on every VERSION below the oldest version, and leaves the
\* dict as it was (the part of C10 that is about migrate alone)
C10_MigrateRaises ==
    ( /\ Migrated
      /\ Has(ret.before, "VERSION")
      /\ ret.before["VERSION"] < V1_VERSION )
    => /\ ret.exc = "RuntimeError"
       /\ data = ret.before

C10_MigrateRaisesWitness ==
    /\ Migrated
    /\ Has(ret.before, "VERSION")
    /\ ret.before["VERSION"] < V1_VERSION
    /\ ret.self.cls = 2

----------------------------------------------------------------------------
(* Claims on load / save (SpecSettings) *)

\* obj.load(DirectPath) has just been called on an existing file
Loaded == ret.op = "load" /\ DirectPath \in DOMAIN ret.before

LoadedFile == ret.before[DirectPath]

\* C4: a load that ends without error has copied data whose VERSION is the
\* version of the schema, migrated in full, and the instance is at that
\* version; a load that hit an error leaves the instance as it was.
C4_LoadEndsAtCurrentVersion ==
    Loaded =>
        /\ obj.attrs["VERSION"] = ClassVersion(obj.cls)
        /\ IF ret.log = "none"
           THEN /\ ret.result["VERSION"] = ClassVersion(obj.cls)
                /\ \A k \in DOMAIN ret.result : obj.attrs[k] = ret.result[k]
                /\ (obj.cls = 2 /\ LoadedFile["VERSION"] < V2_VERSION)
                     => Has(ret.result, "new_variable_dosh")
           ELSE obj = ret.self

\* a version-1 file has been migrated and loaded by a SettingsV2 instance
C4_Witness ==
    /\ Loaded
    /\ ret.log = "none"
    /\ obj.cls = 2
    /\ LoadedFile["VERSION"] = 1
    /\ obj.attrs["new_variable"] # DefaultNewVariable

\* C5: load of a file with no VERSION key raises to the caller.
C5_MalformedRaises ==
    (Loaded /\ ~Has(LoadedFile, "VERSION")) => ret.exc # "none"

\* C9: save(path), then load(path) on a fresh instance of the same schema:
\* the loaded instance has the field values of the saved one.
C9_RoundTrip ==
    ( /\ Loaded
      /\ ret.saved # None
      /\ ret.saved.cls = ret.self.cls
      /\ ret.self = NewInstance(ret.self.cls) )
    => /\ ret.exc = "none"
       /\ ret.log = "none"
       /\ obj.attrs = ret.saved.attrs

\* a saved instance with a field off its default has been loaded back
C9_Witness ==
    /\ Loaded
    /\ ret.saved # None
    /\ ret.saved.cls = 2
    /\ ret.self = NewInstance(2)
    /\ ret.saved.attrs["new_variable_dosh"] # DefaultNewVariableDosh
    /\ obj = ret.saved

\* C10: migrating data whose VERSION is below the oldest version ends in
\* an error, through migrate and through load of such a snapshot.
C10_UnsupportedVersionFails ==
    /\ C10_MigrateRaises
    /\ ( /\ Loaded
         /\ Has(LoadedFile, "VERSION")
         /\ LoadedFile["VERSION"] < V1_VERSION )
       => ret.exc # "none"

----------------------------------------------------------------------------
(* Claims on Manager (Spec) *)

\* the last operation of a Manager ran load(): load() itself, or a get on
\* a Manager with nothing cached
RanLoad == ret.op \in {"load", "get"} /\ ret.loaded

SettingsType == mgr[ret.m].settings_type

Candidates == valid_files(ret.before)

\* the snapshot in file n of the directory the operation started on
FromTheFuture(n) ==
    /\ Has(ret.before[n], "VERSION")
    /\ ret.before[n]["VERSION"] > ClassVersion(SettingsType)

OlderValid(n) ==
    /\ Has(ret.before[n], "VERSION")
    /\ ret.before[n]["VERSION"] >= V1_VERSION
    /\ ret.before[n]["VERSION"] <= ClassVersion(SettingsType)

\* the candidate of highest file-name version among those in S
Newest(S) == CHOOSE n \in S : \A o \in S : NameVersion(o) <= NameVersion(n)

\* C1: in a directory with a from-the-future snapshot and an older valid
\* one, load() skips the snapshots from the future and the active instance
\* holds the newest other snapshot, migrated to the current version.
C1_FutureFallback ==
    ( /\ RanLoad
      /\ \A n \in Candidates :
            NameVersion(n) # NoMatch /\ (FromTheFuture(n) \/ OlderValid(n))
      /\ \E n \in Candidates : FromTheFuture(n)
      /\ \E n \in Candidates : OlderValid(n) )
    => /\ ret.exc = "none"
       /\ mgr[ret.m].settings =
            BaseSettings_load(NewInstance(SettingsType), ret.before,
                Newest({n \in Candidates : OlderValid(n)})).obj

\* C6: when the candidate load() attempts fails with an error other than
\* from-the-future, the get or set that ran the load fails, nothing is
\* adopted and no file is written.
C6_NothingPersistedOnError ==
    ( /\ ret.op \in {"get", "set"}
      /\ ret.loaded
      /\ ret.log \in {"malformed", "invalid_version", "migrate_raised",
                      "chain_failed"} )
    => /\ ret.exc # "none"
       /\ Len(ret.attempted) = 1
       /\ mgr[ret.m].settings = None
       /\ files = ret.before

\* C7: load() attempts the candidates in strictly descending order of
\* file-name version: a candidate is attempted only after every candidate
\* of higher version was attempted and raised SettingsFromTheFuture, and
\* the candidate adopted is the last one attempted.
C7_DescendingOrder ==
    (ret.loaded /\ ret.exc # "AttributeError") =>
        /\ \A i \in DOMAIN ret.attempted : ret.attempted[i] \in Candidates
        /\ \A i, j \in DOMAIN ret.attempted :
             i < j => NameVersion(ret.attempted[i])
                        > NameVersion(ret.attempted[j])
        /\ \A i \in DOMAIN ret.attempted : \A n \in Candidates :
             NameVersion(n) > NameVersion(ret.attempted[i])
               => \E j \in 1 .. (i - 1) :
                    /\ ret.attempted[j] = n
                    /\ load_from_file(SettingsType, ret.before, n).exc
                         = "SettingsFromTheFuture"
        /\ ret.fallback => ret.attempted \in SortedReversed(Candidates)
        /\ (RanLoad /\ ~ret.fallback /\ ret.exc = "none") =>
             mgr[ret.m].settings =
               load_from_file(SettingsType, ret.before,
                              ret.attempted[Len(ret.attempted)]).obj

\* load() adopted the newest of several candidates and left alone an older
\* one that would have loaded too
C7_Witness ==
    /\ RanLoad
    /\ ret.exc = "none"
    /\ ~ret.fallback
    /\ ret.log = "none"
    /\ Cardinality(Candidates) >= 2
    /\ Len(ret.attempted) = 1
    /\ \E n \in Candidates :
         /\ NameVersion(n) < NameVersion(ret.attempted[1])
         /\ OlderValid(n)

\* C8: on a directory with no file that starts with the prefix, load()
\* creates settings-<current version>.json holding the defaults of the
\* schema, and the active instance is the default instance.
C8_EmptyDirectoryBootstrap ==
    (RanLoad /\ Candidates = {}) =>
        /\ ret.exc = "none"
        /\ settings_file_path(SettingsType) \notin DOMAIN ret.before
        /\ files = Put(ret.before, settings_file_path(SettingsType),
                       [k \in FieldsOf(SettingsType) |->
                          IF k = "VERSION" THEN ClassVersion(SettingsType)
                          ELSE DefaultOf(k)])
        /\ mgr[ret.m].settings = NewInstance(SettingsType)
        /\ NameVersion(settings_file_path(SettingsType))
             = ClassVersion(SettingsType)

\* load() ran for the version-2 schema on a directory that holds a file,
\* but none that starts with the prefix, and wrote settings-2.json
C8_Witness ==
    /\ RanLoad
    /\ Candidates = {}
    /\ OtherName \in DOMAIN ret.before
    /\ SettingsType = 2
    /\ "settings-2.json" \in DOMAIN files
    /\ files["settings-2.json"]["VERSION"] = 2

\* the file at settings_file_path() of the Manager of the last operation
CanonicalPath == settings_file_path(SettingsType)

\* manager.settings = value has just returned
SetReturned == ret.op = "set" /\ ret.exc = "none"

\* C11: after every set(newInstance) that returns, the cached instance is
\* newInstance and the file at settings_file_path() holds exactly the field
\* values of newInstance, whatever the file held before.
C11_SetPersists ==
    SetReturned =>
        /\ mgr[ret.m].settings = ret.value
        /\ CanonicalPath \in DOMAIN files
        /\ DOMAIN files[CanonicalPath] = FieldsOf(SettingsType)
        /\ \A k \in FieldsOf(SettingsType) :
              files[CanonicalPath][k] = ret.value.attrs[k]

\* a set on a Manager that had an instance cached has overwritten a
\* canonical file that held other values
C11_Witness ==
    /\ SetReturned
    /\ ~ret.loaded
    /\ ret.was # ret.value
    /\ CanonicalPath \in DOMAIN ret.before
    /\ ret.before[CanonicalPath] # files[CanonicalPath]
    /\ ret.value.attrs["new_variable"] # DefaultNewVariable

\* manager.settings.<k> = v has just returned
FieldMutated == ret.op = "setfield" /\ ret.exc = "none"

\* C12: after every mutation of a field of the active instance (as of the
\* instance the getter returned), the canonical file holds the field values
\* of the active instance.
C12_SaveOnFieldMutation ==
    FieldMutated =>
        /\ CanonicalPath \in DOMAIN files
        /\ files[CanonicalPath] = ToJson(mgr[ret.m].settings)

----------------------------------------------------------------------------
(* More claims on migrate (SpecMigrate) *)

\* C13: migrate on data whose VERSION is below the version of the schema
\* only adds keys: every key the dict had before, other than VERSION, is
\* still there with the value it had, a key named as a field the target
\* version introduces included.
C13_MigrateOnlyAddsKeys ==
    ( /\ Migrated
      /\ Has(ret.before, "VERSION")
      /\ ret.before["VERSION"] < ClassVersion(ret.self.cls) )
    => \A k \in (DOMAIN ret.before) \ {"VERSION"} :
          Has(data, k) /\ data[k] = ret.before[k]

----------------------------------------------------------------------------
(* More claims on Manager (Spec) *)

\* the last operation was load() or a get
LoadOrGet == ret.op \in {"load", "get"}

\* C14: no operation of a Manager deletes a file, and an operation changes
\* no file other than the one at settings_file_path().  load() (by itself
\* or run by a get) leaves every file that exists as it is: a candidate it
\* adopts is not rewritten, migrated or not, and the canonical file is not
\* created; it creates a file only through its else clause, at
\* settings_file_path().
C14_WritesConfined ==
    /\ DOMAIN ret.before \subseteq DOMAIN files
    /\ DOMAIN files \subseteq (DOMAIN ret.before) \cup {CanonicalPath}
    /\ \A n \in DOMAIN ret.before :
         n # CanonicalPath => files[n] = ret.before[n]
    /\ LoadOrGet =>
         /\ \A n \in DOMAIN ret.before : files[n] = ret.before[n]
         /\ (files # ret.before) =>
              /\ ret.loaded
              /\ ret.fallback
              /\ CanonicalPath \notin DOMAIN ret.before
    /\ (ret.op \in {"set", "save"} /\ ret.exc = "none") =>
         CanonicalPath \in DOMAIN files

\* load() of the version-2 schema has adopted a version-1 snapshot,
\* migrated, from a directory without settings-2.json, and has written
\* nothing
C14_Witness ==
    /\ RanLoad
    /\ ret.exc = "none"
    /\ ret.log = "none"
    /\ SettingsType = 2
    /\ ret.attempted = <<"settings-1.json">>
    /\ ret.before["settings-1.json"]["VERSION"] = 1
    /\ mgr[ret.m].settings.attrs["new_variable"] # DefaultNewVariable
    /\ files = ret.before
    /\ CanonicalPath \notin DOMAIN files

----------------------------------------------------------------------------
(* Claims on two Managers sharing a directory (SpecShared) *)

\* the Manager that did not run the last operation
Other == CHOOSE o \in SharedManagers : o # ret.m

\* C15: get and set run load() exactly when no instance is cached.  A get
\* on a Manager with a cached instance returns that instance, lists no
\* directory, reads and writes no file, whatever the files hold by then.
C15_LazyLoadOnce ==
    /\ ret.op \in {"get", "set", "save"} =>
         (ret.loaded <=> ret.was = None)
    /\ (ret.op = "get" /\ ret.was # None) =>
         /\ ret.exc = "none"
         /\ mgr[ret.m].settings = ret.was
         /\ ret.attempted = <<>>
         /\ ~ret.fallback
         /\ files = ret.before

\* a get has returned the cached instance of its Manager although the
\* canonical file holds other values by then, written by the other Manager
C15_Witness ==
    /\ ret.op = "get"
    /\ ret.was # None
    /\ mgr[ret.m].settings = ret.was
    /\ CanonicalPath \in DOMAIN files
    /\ files[CanonicalPath] # ToJson(ret.was)
    /\ mgr[Other].settings # None
    /\ files[CanonicalPath] = ToJson(mgr[Other].settings)

\* C16: the operations of two Managers on one directory are not
\* coordinated.  An operation of a Manager that has an instance cached
\* never fails and never reloads, whatever the other Manager wrote since;
\* it leaves the cached instance of the other Manager as it is; and a set
\* that returns leaves its own value in the canonical file, whatever the
\* file held (the last writer wins).
C16_LastWriterWins ==
    [][ /\ \A o \in SharedManagers :
             o # ret'.m => mgr'[o] = mgr[o]
        /\ mgr[ret'.m].settings # None =>
             /\ ret'.exc = "none"
             /\ ~ret'.loaded
        /\ (ret'.op = "set" /\ ret'.exc = "none") =>
             /\ mgr'[ret'.m].settings = ret'.value
             /\ files' = Put(files,
                             settings_file_path(mgr[ret'.m].settings_type),
                             ToJson(ret'.value))
      ]_vars

\* the later of two sets has returned: the canonical file held the value
\* the other Manager has cached, and now holds the value of this set, which
\* differs; the other Manager still has its own value cached
C16_Witness ==
    /\ SetReturned
    /\ ret.was # None
    /\ mgr[Other].settings # None
    /\ CanonicalPath \in DOMAIN ret.before
    /\ ret.before[CanonicalPath] = ToJson(mgr[Other].settings)
    /\ files[CanonicalPath] = ToJson(ret.value)
    /\ files[CanonicalPath] # ToJson(mgr[Other].settings)
    /\ mgr[ret.m].settings = ret.value

----------------------------------------------------------------------------
(* Claims on a restart (SpecRestart) *)

\* no candidate of the directory fs carries a version above that of cls
NoNewerName(fs, cls) ==
    \A n \in valid_files(fs) : NameVersion(n) <= ClassVersion(cls)

\* C17: after set(x) on a Manager, the first get of a new Manager of the
\* same schema on the same directory returns an instance with the field
\* values of x, when no file name of the directory carries a version above
\* the current one.
C17_Durability ==
    [][ ( /\ ret.op = "init"
          /\ ret.value # None
          /\ ret'.op = "get"
          /\ NoNewerName(files, mgr[ret.m].settings_type) )
        => /\ ret'.exc = "none"
           /\ mgr'[ret'.m].settings.attrs = ret.value.attrs
      ]_vars

----------------------------------------------------------------------------
(* More claims on load (SpecSettings) *)

\* the content of the loaded file is one load cannot take: no VERSION key,
\* VERSION 0, a VERSION above that of the instance, or one below the oldest
\* version, on which migrate raises
CannotLoad ==
    \/ ~Has(LoadedFile, "VERSION")
    \/ LoadedFile["VERSION"] = 0
    \/ LoadedFile["VERSION"] > ClassVersion(ret.self.cls)
    \/ LoadedFile["VERSION"] < V1_VERSION

\* C18: load of an existing file that hits a failure leaves every field of
\* the instance, VERSION included, as it was before the call, and leaves
\* the file as it was; the contents named above all end in a failure.
C18_FailedLoadLeavesInstance ==
    /\ (Loaded /\ CannotLoad) => ret.log # "none"
    /\ (Loaded /\ ret.log # "none") =>
         /\ obj.cls = ret.self.cls
         /\ \A k \in FieldsOf(ret.self.cls) :
              obj.attrs[k] = ret.self.attrs[k]
         /\ DOMAIN obj.attrs = FieldsOf(ret.self.cls)
         /\ files = ret.before

\* an instance with a field off its default has gone through a load that
\* failed on a file from the future, and kept the field
C18_Witness ==
    /\ Loaded
    /\ ret.log = "from_the_future"
    /\ ret.self.attrs["new_variable"] # DefaultNewVariable
    /\ Has(LoadedFile, "new_variable")
    /\ LoadedFile["new_variable"] # ret.self.attrs["new_variable"]
    /\ obj = ret.self

----------------------------------------------------------------------------
(* Claims on the names of the candidates (Spec) *)

\* the directory the last operation started on holds a candidate whose
\* name has no digit after the prefix
MalformedCandidate == \E n \in Candidates : NameVersion(n) = NoMatch

====
